---- MODULE Spec2Model ----
(***************************************************************************)
(* Model of LightBnB_WebApp-master/server/database.js: the six exported    *)
(* query functions, the SQL text and parameter list each one hands to      *)
(* pool.query, the database's answer, and the .then/.catch callbacks.      *)
(*                                                                         *)
(* SQL text is a sequence of tokens.  A fixed piece of a template literal  *)
(* is one token; everything the code computes (placeholder digits, the     *)
(* separators that slice() cuts, interpolated keys) is one token per       *)
(* character, so that counting, slicing and parsing are done on the text.  *)
(***************************************************************************)
EXTENDS Integers, Sequences, FiniteSets, TLC

(* ------------------------------------------------------------------ *)
(* Bounds                                                             *)
(* ------------------------------------------------------------------ *)
MaxCalls == 2        \* concurrent getAllProperties calls in SpecConc
MaxKeys == 2         \* keys of a freely ordered property record
MaxWide == 11        \* keys of the widest "form shaped" property record
DefaultLimit == 10   \* limit = 10

VARIABLES
  fn,          \* fn[c]: the exported function call c invoked ("none" before)
  input,       \* input[c]: the arguments of call c
  pc,          \* pc[c]: "idle", "query" (pool.query pending), "then", "catch", "done"
  pool,        \* pool[c]: the (text, args) pair call c handed to pool.query
  result,      \* result[c]: the rows of the database's answer to call c
  promise,     \* promise[c]: state of the promise the call returned
  ret,         \* ret[c]: the value that promise was resolved with
  log,         \* console.log: the calls whose error message was printed
  users,       \* the users table
  properties   \* the properties table (with the aggregated rating of each row)

vars == <<fn, input, pc, pool, result, promise, ret, log, users, properties>>

(* ------------------------------------------------------------------ *)
(* JavaScript values                                                  *)
(* ------------------------------------------------------------------ *)
Undef == [k |-> "undefined", s |-> <<>>, n |-> 0]
Null == [k |-> "null", s |-> <<>>, n |-> 0]
Str(s) == [k |-> "string", s |-> s, n |-> 0]
Num(n) == [k |-> "number", s |-> <<>>, n |-> n]

\* ToBoolean, as applied by `if (options.x)`.
Truthy(v) ==
  CASE v.k = "string" -> v.s # <<>>
    [] v.k = "number" -> v.n # 0
    [] OTHER -> FALSE

DigitChar == <<"0", "1", "2", "3", "4", "5", "6", "7", "8", "9">>

\* Number -> decimal string, one token per digit.
RECURSIVE Digits(_)
Digits(n) ==
  IF n < 10 THEN <<DigitChar[n + 1]>>
  ELSE Digits(n \div 10) \o <<DigitChar[(n % 10) + 1]>>

\* String conversion inside a template literal `${v}`.
ToStr(v) ==
  CASE v.k = "string" -> v.s
    [] v.k = "number" -> Digits(v.n)
    [] OTHER -> <<v.k>>

\* `%${options.city}%`
Wildcarded(v) == Str(<<"%">> \o ToStr(v) \o <<"%">>)

\* Faulty variant: the price is bound in dollars.
NotConverted(v) == v

\* options.minimum_price_per_night * 100
Times100(v) == Num(v.n * 100)

\* `$${queryParams.length}`
Placeholder(queryParams) == <<"$">> \o Digits(Len(queryParams))

\* Array.prototype.join
RECURSIVE Join(_, _)
Join(pieces, sep) ==
  IF pieces = <<>> THEN <<>>
  ELSE IF Len(pieces) = 1 THEN pieces[1]
  ELSE pieces[1] \o sep \o Join(Tail(pieces), sep)

\* String.prototype.slice(0, -k)
SliceEnd(str, k) ==
  IF Len(str) <= k THEN <<>> ELSE SubSeq(str, 1, Len(str) - k)

(* ------------------------------------------------------------------ *)
(* getAllProperties: the statement it builds                          *)
(* ------------------------------------------------------------------ *)
SelectBase == "SELECT properties.*, AVG(rating) AS average_rating FROM properties LEFT JOIN property_reviews ON properties.id = property_id "
CityLike == "city LIKE "
OwnerEq == "owner_id = "
CostGe == "(cost_per_night) >= "
CostLe == "(cost_per_night) <= "
WhereKw == "WHERE "
AndKw == "AND "
GroupBy == "GROUP BY properties.id "
Having == "HAVING AVG(rating) > "
OrderLimit == "ORDER BY cost_per_night LIMIT "

\* Faulty variant: queryParams lives at module scope and is never
\* emptied, so a call starts from what the calls in flight have pushed.
SharedQueryParams ==
  IF \E d \in DOMAIN pool : pool[d].args # <<>>
  THEN pool[CHOOSE d \in DOMAIN pool : pool[d].args # <<>>].args
  ELSE <<>>

\* const queryParams = []
NewQueryParams == <<>>

\* limit = 10 (default parameter: used when the argument is undefined)
LimitOrDefault(limit) == IF limit.k = "undefined" THEN Num(DefaultLimit) ELSE limit

\* Faulty variant: the wildcard is put on the right side only.
PrefixParam(options) == Str(ToStr(options.city) \o <<"%">>)

\* The bound value of the city predicate.
CityParam(options) == Wildcarded(options.city)

\* Faulty variant: the placeholder is numbered before the value is pushed.
PushWhereStale(st, present, value, piece) ==
  IF present
  THEN [queryParams |-> Append(st.queryParams, value),
        whereQuery |-> Append(st.whereQuery,
                              <<piece>> \o Placeholder(st.queryParams) \o <<" ">>)]
  ELSE st

\* Faulty variant: the value is written into the text instead of bound.
PushWhereInline(st, present, value, piece) ==
  IF present
  THEN [queryParams |-> st.queryParams,
        whereQuery |-> Append(st.whereQuery, <<piece, "'">> \o ToStr(value) \o <<"'", " ">>)]
  ELSE st

\* One `if (options.x) { queryParams.push(v); whereQuery.push(piece) }` step.
PushWhere(st, present, value, piece) ==
  IF present
  THEN LET qp == Append(st.queryParams, value)
       IN [queryParams |-> qp,
           whereQuery |-> Append(st.whereQuery, <<piece>> \o Placeholder(qp) \o <<" ">>)]
  ELSE st

\* if (whereQuery.length > 0) queryString += `WHERE ` + whereQuery.join(`AND `)
WhereClause(whereQuery) ==
  IF Len(whereQuery) > 0 THEN <<WhereKw>> \o Join(whereQuery, <<AndKw>>) ELSE <<>>

\* Faulty variant: the HAVING piece is written before GROUP BY.
HavingBeforeGroup(q, queryParams, options) ==
  IF Truthy(options.minimum_rating)
  THEN LET qp == Append(queryParams, options.minimum_rating)
       IN [text |-> q \o <<Having>> \o Placeholder(qp) \o <<" ", GroupBy>>,
           queryParams |-> qp]
  ELSE [text |-> q \o <<GroupBy>>, queryParams |-> queryParams]

\* queryString += `GROUP BY properties.id `;
\* if (options.minimum_rating) { queryParams.push(..); queryString += `HAVING .. $n ` }
GroupAndHaving(q, queryParams, options) ==
  IF Truthy(options.minimum_rating)
  THEN LET qp == Append(queryParams, options.minimum_rating)
       IN [text |-> q \o <<GroupBy, Having>> \o Placeholder(qp) \o <<" ">>,
           queryParams |-> qp]
  ELSE [text |-> q \o <<GroupBy>>, queryParams |-> queryParams]

\* queryParams.push(limit); queryString += `ORDER BY cost_per_night LIMIT $n;`
OrderAndLimit(st, limit) ==
  LET qp == Append(st.queryParams, limit)
  IN [text |-> st.text \o <<OrderLimit>> \o Placeholder(qp) \o <<";">>, args |-> qp]

BuildPropertySearch(options, limitArg) ==
  LET s0 == [queryParams |-> NewQueryParams, whereQuery |-> <<>>]
      s1 == PushWhere(s0, Truthy(options.city), CityParam(options), CityLike)
      s2 == PushWhere(s1, Truthy(options.owner_id), options.owner_id, OwnerEq)
      s3 == PushWhere(s2, Truthy(options.minimum_price_per_night),
                      Times100(options.minimum_price_per_night), CostGe)
      s4 == PushWhere(s3, Truthy(options.maximum_price_per_night),
                      Times100(options.maximum_price_per_night), CostLe)
      q1 == <<SelectBase>> \o WhereClause(s4.whereQuery)
  IN OrderAndLimit(GroupAndHaving(q1, s4.queryParams, options), LimitOrDefault(limitArg))

(* ------------------------------------------------------------------ *)
(* addProperty: the statement it builds                               *)
(* ------------------------------------------------------------------ *)
InsertProperties == "INSERT INTO properties ("
ValuesKw == ") VALUES ("
Returning == ") RETURNING *;"

\* Object.keys(property): own keys in insertion order (column names are
\* never integer-like, so no key is reordered).
ObjectKeys(property) == [i \in 1..Len(property) |-> property[i].key]

\* property[key]
Lookup(property, key) ==
  property[CHOOSE i \in 1..Len(property) : property[i].key = key].value

\* Faulty variant: the separator after the last placeholder is kept.
KeepLastSeparator(valueIndex) == valueIndex

\* valueIndex.slice(0, -2): drops the last separator `, `
DropLastSeparator(valueIndex) == SliceEnd(valueIndex, 2)

\* for (let key of keys) { queryParams.push(property[key]); valueIndex += `$n, ` }
RECURSIVE ValueLoop(_, _, _)
ValueLoop(property, keys, st) ==
  IF keys = <<>> THEN st
  ELSE LET qp == Append(st.queryParams, Lookup(property, Head(keys)))
       IN ValueLoop(property, Tail(keys),
                    [queryParams |-> qp,
                     valueIndex |-> st.valueIndex \o Placeholder(qp) \o <<",", " ">>])

BuildInsert(property) ==
  LET keys == ObjectKeys(property)
      head == <<InsertProperties>> \o Join([i \in 1..Len(keys) |-> <<keys[i]>>], <<",", " ">>)
                \o <<ValuesKw>>
      st == ValueLoop(property, keys, [queryParams |-> <<>>, valueIndex |-> <<>>])
  IN [text |-> head \o DropLastSeparator(st.valueIndex) \o <<Returning>>,
      args |-> st.queryParams]

(* ------------------------------------------------------------------ *)
(* The fixed statements                                               *)
(* ------------------------------------------------------------------ *)
SelectUserByEmail == "SELECT * FROM users WHERE email = "
SelectUserById == "SELECT * FROM users WHERE id = "
InsertUser == "INSERT INTO users (name, email, password) VALUES ("
SelectReservations == "SELECT reservations.*, properties.*, AVG(property_reviews.rating) AS average_rating FROM reservations JOIN properties ON properties.id = property_id JOIN property_reviews ON reservations.id = reservation_id WHERE reservations.guest_id = "
ReservationsTail == " GROUP BY properties.id, reservations.id ORDER BY reservations.start_date LIMIT "

UserByEmailQuery(email) ==
  [text |-> <<SelectUserByEmail, "$", "1">>, args |-> <<email>>]

UserByIdQuery(id) ==
  [text |-> <<SelectUserById, "$", "1">>, args |-> <<id>>]

AddUserQuery(user) ==
  [text |-> <<InsertUser, "$", "1", ",", " ", "$", "2", ",", " ", "$", "3", Returning>>,
   args |-> <<user.name, user.email, user.password>>]

ReservationsQuery(guest_id, limitArg) ==
  [text |-> <<SelectReservations, "$", "1", ReservationsTail, "$", "2", ";">>,
   args |-> <<guest_id, LimitOrDefault(limitArg)>>]

(* ------------------------------------------------------------------ *)
(* The database behind pool.query                                     *)
(* ------------------------------------------------------------------ *)
IsDigit(ch) == \E d \in 1..10 : DigitChar[d] = ch

DigitVal(ch) == (CHOOSE d \in 1..10 : DigitChar[d] = ch) - 1

\* The number written at text[i..], read digit by digit (-1 when none).
RECURSIVE ReadNumber(_, _, _)
ReadNumber(text, i, acc) ==
  IF i <= Len(text) /\ IsDigit(text[i])
  THEN ReadNumber(text, i + 1, (IF acc < 0 THEN 0 ELSE acc * 10) + DigitVal(text[i]))
  ELSE acc

\* The positions of the `$` of each positional placeholder of a statement.
PlaceholderPositions(text) == {i \in 1..Len(text) : text[i] = "$"}

\* The placeholder indices of a statement, as a bag: index -> number of uses.
PlaceholderUses(text) ==
  [n \in {ReadNumber(text, i + 1, -1) : i \in PlaceholderPositions(text)} |->
     Cardinality({i \in PlaceholderPositions(text) : ReadNumber(text, i + 1, -1) = n})]

\* Bind: the server accepts the parameter list only when the statement
\* refers to parameters $1..$N and N values are supplied.
BindOk(q) == DOMAIN PlaceholderUses(q.text) = 1..Len(q.args)

\* s LIKE p: `%` matches any run of characters, `_` any one character,
\* every other character matches itself, letter case included.
RECURSIVE Like(_, _)
Like(s, p) ==
  IF p = <<>> THEN s = <<>>
  ELSE IF Head(p) = "%" THEN Like(s, Tail(p)) \/ (s # <<>> /\ Like(Tail(s), p))
  ELSE /\ s # <<>>
       /\ (Head(p) = "_" \/ Head(p) = Head(s))
       /\ Like(Tail(s), Tail(p))

\* The comparison a WHERE / HAVING piece of the search statement makes.
Compare(piece, row, arg) ==
  CASE piece = CityLike -> Like(row.city, arg.s)
    [] piece = OwnerEq -> row.owner_id = arg.n
    [] piece = CostGe -> row.cost_per_night >= arg.n
    [] piece = CostLe -> row.cost_per_night <= arg.n
    [] piece = Having -> row.rating > arg.n
    [] OTHER -> TRUE

\* A row passes the search statement when every predicate holds of it.
Passes(q, row) ==
  \A i \in PlaceholderPositions(q.text) :
    Compare(q.text[i - 1], row, q.args[ReadNumber(q.text, i + 1, -1)])

\* ORDER BY cost_per_night (ties by id), as a sequence of row ids.
RECURSIVE OrderByCost(_, _)
OrderByCost(table, ids) ==
  IF ids = {} THEN <<>>
  ELSE LET m == CHOOSE i \in ids : \A j \in ids :
                  \/ table[i].cost_per_night < table[j].cost_per_night
                  \/ table[i].cost_per_night = table[j].cost_per_night /\ i <= j
       IN <<m>> \o OrderByCost(table, ids \ {m})

\* LIMIT n
LimitRows(rows, n) == IF Len(rows) <= n THEN rows ELSE SubSeq(rows, 1, n)

\* The row ids of a table, in table order.
RowIds(table) == [i \in 1..Len(table) |-> i]

Reservations == <<[guest_id |-> 1], [guest_id |-> 1], [guest_id |-> 2]>>

\* The statement is one the server can run: the parameters bind, and an
\* INSERT names at least one column.
StatementOk(q) ==
  /\ BindOk(q)
  /\ q.text[1] = InsertProperties => q.text[2] # ValuesKw

\* The rows the server answers with.
Answer(q) ==
  LET kind == q.text[1]
      last == q.args[Len(q.args)]
  IN CASE kind = SelectUserByEmail ->
            SelectSeq(RowIds(users), LAMBDA i : users[i].email = q.args[1])
       [] kind = SelectUserById ->
            SelectSeq(RowIds(users), LAMBDA i : Num(users[i].id) = q.args[1])
       [] kind = InsertUser -> <<Len(users) + 1>>
       [] kind = SelectReservations ->
            LimitRows(SelectSeq(RowIds(Reservations),
                                LAMBDA i : Num(Reservations[i].guest_id) = q.args[1]), last.n)
       [] kind = SelectBase ->
            LimitRows(OrderByCost(properties,
                        {i \in 1..Len(properties) : Passes(q, properties[i])}), last.n)
       [] OTHER -> <<Len(properties) + 1>>

\* The value of column `col` in an inserted property (its default when
\* the statement does not name the column).
Column(q, col, default) ==
  LET cols == {i \in 1..Len(q.args) : q.text[3 * i - 1] = col}
  IN IF cols = {} THEN default ELSE q.args[CHOOSE i \in cols : TRUE]

InsertedProperty(q) ==
  [city |-> Column(q, "city", Str(<<>>)).s,
   owner_id |-> Column(q, "owner_id", Num(0)).n,
   cost_per_night |-> Column(q, "cost_per_night", Num(0)).n,
   rating |-> 0]

UsersAfter(q) ==
  IF q.text[1] = InsertUser
  THEN Append(users, [id |-> Len(users) + 1, name |-> q.args[1],
                      email |-> q.args[2], password |-> q.args[3]])
  ELSE users

PropertiesAfter(q) ==
  IF q.text[1] = InsertProperties THEN Append(properties, InsertedProperty(q))
  ELSE properties

(* ------------------------------------------------------------------ *)
(* Values and inputs                                                  *)
(* ------------------------------------------------------------------ *)
RetUndefined == [kind |-> "undefined", rows |-> <<>>]
RetNull == [kind |-> "null", rows |-> <<>>]
RetRow(id) == [kind |-> "row", rows |-> <<id>>]
RetRows(rows) == [kind |-> "rows", rows |-> rows]

NoOptions ==
  [city |-> Undef, owner_id |-> Undef, minimum_price_per_night |-> Undef,
   maximum_price_per_night |-> Undef, minimum_rating |-> Undef]

NoUser == [name |-> Undef, email |-> Undef, password |-> Undef]

NoInput ==
  [options |-> NoOptions, limit |-> Undef, property |-> <<>>, user |-> NoUser, key |-> Undef]

NoQuery == [text |-> <<>>, args |-> <<>>]

NoResult == [defined |-> FALSE, rows |-> <<>>]

Calls == 1..MaxCalls

Cities == {Undef, Str(<<>>), Str(<<"a">>), Str(<<"A">>), Str(<<"_">>)}
Owners == {Undef, Num(0), Num(1)}
MinPrices == {Undef, Num(0), Num(1)}
MaxPrices == {Undef, Num(0), Num(2)}
Ratings == {Undef, Num(0), Num(4)}
Limits == {Undef, Num(1)}

AllOptions ==
  [city : Cities, owner_id : Owners, minimum_price_per_night : MinPrices,
   maximum_price_per_night : MaxPrices, minimum_rating : Ratings]

\* The filters of concurrent caller c: every value names its caller.
CallerChar == <<"a", "b", "c", "d">>

CallerOptions(c) ==
  [city : {Undef, Str(<<CallerChar[c]>>)}, owner_id : {Undef, Num(c)},
   minimum_price_per_night : {Undef}, maximum_price_per_night : {Undef},
   minimum_rating : {Undef, Num(c)}]

Emails == {Str(<<"eva@x">>), Str(<<"bob@x">>)}
UserIds == {Num(1), Num(2)}
GuestIds == {Num(1), Num(3)}
NewUsers == [name : {Str(<<"Bob">>)}, email : Emails, password : {Str(<<"pw">>)}]

ColumnValues(col) ==
  CASE col = "city" -> {Str(<<"a">>), Str(<<"b">>)}
    [] col = "owner_id" -> {Num(1), Num(2)}
    [] OTHER -> {Num(100)}

Entries ==
  UNION {[key : {col}, value : ColumnValues(col)] : col \in {"city", "owner_id", "cost_per_night"}}

\* Records of up to MaxKeys distinct columns, in every key order.
SmallRecords ==
  {p \in UNION {[1..n -> Entries] : n \in 0..MaxKeys} :
     \A i, j \in 1..Len(p) : p[i].key = p[j].key => i = j}

WideColumns ==
  <<"owner_id", "title", "description", "thumbnail_photo_url", "cover_photo_url",
    "cost_per_night", "street", "city", "province", "post_code", "country",
    "parking_spaces", "number_of_bathrooms", "number_of_bedrooms">>

WideValue(i) ==
  IF WideColumns[i] \in {"owner_id", "cost_per_night", "parking_spaces",
                         "number_of_bathrooms", "number_of_bedrooms"}
  THEN Num(i) ELSE Str(<<"v", DigitChar[(i % 10) + 1]>>)

\* Records shaped like the new-property form: the first n columns.
WideRecords ==
  {[i \in 1..n |-> [key |-> WideColumns[i], value |-> WideValue(i)]] :
     n \in {m \in (MaxKeys + 1)..MaxWide : m <= Len(WideColumns)}}

PropertyRecords == SmallRecords \cup WideRecords

(* ------------------------------------------------------------------ *)
(* The exported functions                                             *)
(* ------------------------------------------------------------------ *)
\* pool.query(queryString, queryParams)
Submit(p, c, q) == [p EXCEPT ![c] = q]

Invoke(c, name, in, q) ==
  /\ fn' = [fn EXCEPT ![c] = name]
  /\ input' = [input EXCEPT ![c] = in]
  /\ pool' = Submit(pool, c, q)
  /\ pc' = [pc EXCEPT ![c] = "query"]
  /\ promise' = [promise EXCEPT ![c] = "pending"]
  /\ UNCHANGED <<result, ret, log, users, properties>>

GetUserWithEmail(c, email) ==
  /\ pc[c] = "idle"
  /\ Invoke(c, "getUserWithEmail", [NoInput EXCEPT !.key = email], UserByEmailQuery(email))

GetUserWithId(c, id) ==
  /\ pc[c] = "idle"
  /\ Invoke(c, "getUserWithId", [NoInput EXCEPT !.key = id], UserByIdQuery(id))

AddUser(c, user) ==
  /\ pc[c] = "idle"
  /\ Invoke(c, "addUser", [NoInput EXCEPT !.user = user], AddUserQuery(user))

GetAllReservations(c, guest_id, limit) ==
  /\ pc[c] = "idle"
  /\ Invoke(c, "getAllReservations", [NoInput EXCEPT !.key = guest_id, !.limit = limit],
            ReservationsQuery(guest_id, limit))

GetAllProperties(c, options, limit) ==
  /\ pc[c] = "idle"
  /\ Invoke(c, "getAllProperties", [NoInput EXCEPT !.options = options, !.limit = limit],
            BuildPropertySearch(options, limit))

AddProperty(c, property) ==
  /\ pc[c] = "idle"
  /\ Invoke(c, "addProperty", [NoInput EXCEPT !.property = property], BuildInsert(property))

(* ------------------------------------------------------------------ *)
(* The round trip and the callbacks                                   *)
(* ------------------------------------------------------------------ *)
\* The server runs the statement and the query promise is fulfilled.
DbSucceed(c) ==
  /\ pc[c] = "query"
  /\ StatementOk(pool[c])
  /\ result' = [result EXCEPT ![c] = [defined |-> TRUE, rows |-> Answer(pool[c])]]
  /\ users' = UsersAfter(pool[c])
  /\ properties' = PropertiesAfter(pool[c])
  /\ pc' = [pc EXCEPT ![c] = "then"]
  /\ UNCHANGED <<fn, input, pool, promise, ret, log>>

\* The query promise is rejected: the statement is refused, or the
\* connection is lost.
DbFail(c) ==
  /\ pc[c] = "query"
  /\ pc' = [pc EXCEPT ![c] = "catch"]
  /\ UNCHANGED <<fn, input, pool, result, promise, ret, log, users, properties>>

\* if (!result) return null; return result.rows[0];
FirstRow(res) ==
  IF ~res.defined THEN RetNull
  ELSE IF Len(res.rows) >= 1 THEN RetRow(res.rows[1])
  ELSE RetUndefined

\* return result.rows;
AllRows(res) == RetRows(res.rows)

\* The value the .then callback of function f returns.
ThenValue(f, res) ==
  IF f \in {"getUserWithEmail", "getUserWithId"} THEN FirstRow(res) ELSE AllRows(res)

ThenCallback(c) ==
  /\ pc[c] = "then"
  /\ ret' = [ret EXCEPT ![c] = ThenValue(fn[c], result[c])]
  /\ promise' = [promise EXCEPT ![c] = "fulfilled"]
  /\ pc' = [pc EXCEPT ![c] = "done"]
  /\ UNCHANGED <<fn, input, pool, result, log, users, properties>>

\* Faulty variant: the handler logs and throws the error again.
Rethrown(c) == [promise |-> "rejected", value |-> RetUndefined, log |-> Append(log, c)]

\* .catch((err) => { console.log(err.message); }): the handler returns
\* nothing, so the promise it guards is fulfilled with undefined.
Caught(c) == [promise |-> "fulfilled", value |-> RetUndefined, log |-> Append(log, c)]

CatchCallback(c) ==
  /\ pc[c] = "catch"
  /\ ret' = [ret EXCEPT ![c] = Caught(c).value]
  /\ promise' = [promise EXCEPT ![c] = Caught(c).promise]
  /\ log' = Caught(c).log
  /\ pc' = [pc EXCEPT ![c] = "done"]
  /\ UNCHANGED <<fn, input, pool, result, users, properties>>

(* ------------------------------------------------------------------ *)
(* Specifications                                                     *)
(* ------------------------------------------------------------------ *)
InitialUsers ==
  <<[id |-> 1, name |-> Str(<<"Eva">>), email |-> Str(<<"eva@x">>),
     password |-> Str(<<"pw">>)]>>

InitialProperties ==
  <<[city |-> <<"A", "b">>, owner_id |-> 1, cost_per_night |-> 100, rating |-> 5],
    [city |-> <<"a", "b">>, owner_id |-> 2, cost_per_night |-> 200, rating |-> 3],
    [city |-> <<"b">>, owner_id |-> 1, cost_per_night |-> 300, rating |-> 4]>>

Init ==
  /\ fn = [c \in Calls |-> "none"]
  /\ input = [c \in Calls |-> NoInput]
  /\ pc = [c \in Calls |-> "idle"]
  /\ pool = [c \in Calls |-> NoQuery]
  /\ result = [c \in Calls |-> NoResult]
  /\ promise = [c \in Calls |-> "none"]
  /\ ret = [c \in Calls |-> RetUndefined]
  /\ log = <<>>
  /\ users = InitialUsers
  /\ properties = InitialProperties

\* One request: any exported function, any input.
Next ==
  \E c \in {1} :
    \/ \E email \in Emails : GetUserWithEmail(c, email)
    \/ \E id \in UserIds : GetUserWithId(c, id)
    \/ \E user \in NewUsers : AddUser(c, user)
    \/ \E guest_id \in GuestIds, limit \in Limits : GetAllReservations(c, guest_id, limit)
    \/ \E options \in AllOptions, limit \in Limits : GetAllProperties(c, options, limit)
    \/ \E property \in PropertyRecords : AddProperty(c, property)
    \/ DbSucceed(c)
    \/ DbFail(c)
    \/ ThenCallback(c)
    \/ CatchCallback(c)

Spec == Init /\ [][Next]_vars

\* Several searches in flight at once, each caller with its own filters.
NextConc ==
  \E c \in Calls :
    \/ \E options \in CallerOptions(c) : GetAllProperties(c, options, Num(c))
    \/ DbSucceed(c)
    \/ DbFail(c)
    \/ ThenCallback(c)
    \/ CatchCallback(c)

SpecConc == Init /\ [][NextConc]_vars

(* ------------------------------------------------------------------ *)
(* Reading a statement back                                           *)
(* ------------------------------------------------------------------ *)
\* The positions of token tok in a text, in order.
PositionsOf(text, tok) == SelectSeq([i \in 1..Len(text) |-> i], LAMBDA i : text[i] = tok)

\* The placeholder indices of a text, in the order they are written.
PlaceholderSeq(text) ==
  LET at == PositionsOf(text, "$")
  IN [j \in 1..Len(at) |-> ReadNumber(text, at[j] + 1, -1)]

\* The calls that have handed a statement of function f to pool.query.
Sent(f) == {c \in Calls : fn[c] = f /\ pc[c] # "idle"}

Supplied(v) == v.k # "undefined"

WhereFields ==
  <<"city", "owner_id", "minimum_price_per_night", "maximum_price_per_night">>

FieldPiece(f) ==
  CASE f = "city" -> CityLike
    [] f = "owner_id" -> OwnerEq
    [] f = "minimum_price_per_night" -> CostGe
    [] OTHER -> CostLe

\* The value the spec binds for field f.
FieldValue(options, f) ==
  CASE f = "city" -> Str(<<"%">> \o options.city.s \o <<"%">>)
    [] f = "owner_id" -> options.owner_id
    [] OTHER -> Num(options[f].n * 100)

\* The WHERE part of a search statement: what lies before GROUP BY.
WherePart(text) == SubSeq(text, 2, PositionsOf(text, GroupBy)[1] - 1)

\* The search statement q has, for the fields of `options` that count as
\* present under Present, one predicate and one argument each, in the
\* fixed order, joined by AND, under a WHERE that exists iff there are any.
WhereMatches(q, options, limit, Present(_)) ==
  LET fs == SelectSeq(WhereFields, LAMBDA f : Present(options[f]))
      w == WherePart(q.text)
      at == PositionsOf(w, "$")
  IN /\ Len(at) = Len(fs)
     /\ \A j \in 1..Len(fs) :
          /\ w[at[j] - 1] = FieldPiece(fs[j])
          /\ ReadNumber(w, at[j] + 1, -1) = j
          /\ q.args[j] = FieldValue(options, fs[j])
          /\ w[at[j] - 2] = (IF j = 1 THEN WhereKw ELSE AndKw)
     /\ Len(PositionsOf(w, AndKw)) = (IF Len(fs) = 0 THEN 0 ELSE Len(fs) - 1)
     /\ Len(PositionsOf(q.text, WhereKw)) = (IF Len(fs) = 0 THEN 0 ELSE 1)
     /\ (Len(fs) = 0 /\ ~Present(options.minimum_rating))
          => q.args = <<IF limit.k = "undefined" THEN Num(10) ELSE limit>>

AllTruthy(options) ==
  /\ Truthy(options.city) /\ Truthy(options.owner_id)
  /\ Truthy(options.minimum_price_per_night) /\ Truthy(options.maximum_price_per_night)
  /\ Truthy(options.minimum_rating)

(* ------------------------------------------------------------------ *)
(* Claims                                                             *)
(* ------------------------------------------------------------------ *)

\* C1: the statement getAllProperties hands to pool.query has exactly as
\* many placeholders as bound arguments, and the placeholder indices are
\* exactly 1..N, each written once, N being the number of arguments.
C1_PlaceholdersMatchArgs ==
  \A c \in Sent("getAllProperties") :
    /\ Len(PlaceholderSeq(pool[c].text)) = Len(pool[c].args)
    /\ PlaceholderUses(pool[c].text) = [n \in 1..Len(pool[c].args) |-> 1]

C1_Witness ==
  \E c \in Sent("getAllProperties") :
    AllTruthy(input[c].options) /\ Len(pool[c].args) = 6

\* C2 as stated: every SUPPLIED field among city, owner_id, minimum and
\* maximum price (whatever its value, 0 and "" included) contributes one
\* predicate and one argument, in the fixed order, joined by AND, and a
\* WHERE clause is written iff at least one of them is supplied.
C2_SuppliedFieldsContribute ==
  \A c \in Sent("getAllProperties") :
    WhereMatches(pool[c], input[c].options, input[c].limit, Supplied)

\* C2 amended: the same, for the fields whose value is truthy (a non-empty
\* string, a non-zero number); a field supplied as 0 or "" contributes
\* nothing, like an absent one.
C2_TruthyFieldsContribute ==
  \A c \in Sent("getAllProperties") :
    WhereMatches(pool[c], input[c].options, input[c].limit, Truthy)

C2_Witness ==
  \E c \in Sent("getAllProperties") :
    /\ Truthy(input[c].options.city)
    /\ input[c].options.owner_id = Num(0)
    /\ Truthy(input[c].options.minimum_price_per_night)
    /\ Len(pool[c].args) = 3

OptionFields ==
  {"city", "owner_id", "minimum_price_per_night", "maximum_price_per_night",
   "minimum_rating"}

\* Two filters have the same set of present fields.
SamePresence(o1, o2) == \A f \in OptionFields : Truthy(o1[f]) = Truthy(o2[f])

\* The tokens a statement of this module is written with: the fixed
\* pieces, `$`, digits and punctuation.
SearchTokens ==
  {SelectBase, WhereKw, AndKw, CityLike, OwnerEq, CostGe, CostLe, GroupBy, Having,
   OrderLimit, "$", " ", ";"} \cup {DigitChar[d] : d \in 1..10}

InsertTokens(property) ==
  {InsertProperties, ValuesKw, Returning, "$", ",", " "}
    \cup {DigitChar[d] : d \in 1..10} \cup {property[i].key : i \in 1..Len(property)}

C5_InsertShape ==
  \A c \in Sent("addProperty") :
    LET property == input[c].property
        n == Len(property)
        q == pool[c]
        v == PositionsOf(q.text, ValuesKw)
    IN n >= 1 =>
         /\ q.text[1] = InsertProperties
         /\ Len(v) = 1
         /\ v[1] = 3 * n
         /\ \A i \in 1..n :
              /\ q.text[3 * i - 1] = property[i].key
              /\ i < n => q.text[3 * i] = "," /\ q.text[3 * i + 1] = " "
         /\ q.text[Len(q.text)] = Returning
         /\ Len(PositionsOf(q.text, Returning)) = 1
         /\ LET vals == SubSeq(q.text, v[1] + 1, Len(q.text) - 1)
                 at == PositionsOf(vals, "$")
            IN /\ PlaceholderSeq(vals) = [i \in 1..n |-> i]
               /\ at[1] = 1
               /\ \A i \in 1..Len(vals) :
                    \/ vals[i] = "$" /\ i < Len(vals) /\ IsDigit(vals[i + 1])
                    \/ IsDigit(vals[i])
                    \/ vals[i] = "," /\ i > 1 /\ i + 2 <= Len(vals) /\ IsDigit(vals[i - 1])
                                     /\ vals[i + 1] = " " /\ vals[i + 2] = "$"
                    \/ vals[i] = " " /\ i > 1 /\ vals[i - 1] = ","
               /\ IsDigit(vals[Len(vals)])
         /\ Len(q.args) = n
         /\ \A i \in 1..n : q.args[i] = property[i].value

C5_Witness ==
  \E c \in Sent("addProperty") :
    /\ Len(input[c].property) = MaxWide
    /\ pc[c] = "done" /\ ret[c].kind = "rows" /\ Len(ret[c].rows) = 1

\* C6: addProperty called with a record of zero keys fails with a
\* ValidationError reported to the caller, and no statement is built or
\* handed to the database for that call.
C6_EmptyRecordRejected ==
  \A c \in Sent("addProperty") :
    input[c].property = <<>> => pool[c] = NoQuery /\ promise[c] = "rejected"

\* Letter case folding, and substring tests on character sequences.
Lower(ch) == CASE ch = "A" -> "a" [] ch = "B" -> "b" [] OTHER -> ch

LowerSeq(s) == [i \in 1..Len(s) |-> Lower(s[i])]

Contains(s, f) == \E i \in 0..(Len(s) - Len(f)) : SubSeq(s, i + 1, i + Len(f)) = f

\* The argument the city predicate of statement q is bound to.
CityArg(q) == q.args[ReadNumber(q.text, PositionsOf(q.text, CityLike)[1] + 2, -1)]

HasPatternChar(s) == \E i \in 1..Len(s) : s[i] \in {"%", "_"}

\* C7 as stated: the city filter is a case-insensitive substring match: a
\* property whose city contains the filter string up to letter case
\* satisfies the city predicate the call sends, the bound argument being
\* the filter string with a wildcard on both sides.
C7_CityMatchIgnoresCase ==
  \A c \in Sent("getAllProperties") :
    LET city == input[c].options.city
    IN Truthy(city) =>
         /\ CityArg(pool[c]) = Str(<<"%">> \o city.s \o <<"%">>)
         /\ \A r \in 1..Len(properties) :
              Contains(LowerSeq(properties[r].city), LowerSeq(city.s))
                => Compare(CityLike, properties[r], CityArg(pool[c]))

\* C7 amended: the city filter is a case-sensitive substring match (SQL
\* LIKE): for a filter string without the pattern characters % and _, a
\* property satisfies the city predicate exactly when its city contains
\* the filter string with the same letter case; the bound argument is the
\* filter string with a wildcard on both sides.
C7_CityMatchIsCaseSensitive ==
  \A c \in Sent("getAllProperties") :
    LET city == input[c].options.city
    IN Truthy(city) =>
         /\ CityArg(pool[c]) = Str(<<"%">> \o city.s \o <<"%">>)
         /\ ~HasPatternChar(city.s) =>
              \A r \in 1..Len(properties) :
                Compare(CityLike, properties[r], CityArg(pool[c]))
                  <=> Contains(properties[r].city, city.s)

C7_Witness ==
  \E c \in Sent("getAllProperties") :
    /\ input[c].options.city = Str(<<"a">>)
    /\ pc[c] = "then"
    /\ result[c].rows = <<2>>
    /\ Contains(LowerSeq(properties[1].city), <<"a">>)

\* The values caller c passes, as they may be bound.
OwnValues(c) == {Str(<<"%", CallerChar[c], "%">>), Num(c), Num(c * 100)}

\* C8: with several getAllProperties calls in flight, interleaved in any
\* order around their round trips, the (text, args) pair each call has
\* handed to pool.query stays the pair the call builds alone: its
\* predicates and arguments are those of its own filters, and no value
\* of another call is among its arguments.
C8_NoCrossContamination ==
  \A c \in Sent("getAllProperties") :
    /\ pool[c] = BuildPropertySearch(input[c].options, input[c].limit)
    /\ WhereMatches(pool[c], input[c].options, input[c].limit, Truthy)
    /\ Len(pool[c].args) =
         Cardinality({f \in OptionFields : Truthy(input[c].options[f])}) + 1
    /\ \A i \in 1..Len(pool[c].args) : pool[c].args[i] \in OwnValues(c)

C8_Witness ==
  \E c, d \in Sent("getAllProperties") :
    /\ c # d
    /\ pc[c] = "query" /\ pc[d] = "then"
    /\ Len(pool[c].args) = 4 /\ Len(pool[d].args) = 3

Logged(c) == Cardinality({i \in 1..Len(log) : log[i] = c})

\* C9: for each exported function, when the database query fails the
\* error is caught and logged and the returned promise is resolved with
\* undefined; the promise never rejects.
C9_ErrorsSwallowed ==
  \A c \in Calls :
    /\ promise[c] # "rejected"
    /\ pc[c] = "catch" => promise[c] = "pending"
    /\ (pc[c] = "done" /\ ~result[c].defined) =>
         /\ promise[c] = "fulfilled"
         /\ ret[c] = RetUndefined
         /\ Logged(c) = 1
    /\ (pc[c] = "done" /\ result[c].defined) => Logged(c) = 0

C9_Witness ==
  \E c \in Sent("getAllProperties") :
    /\ pc[c] = "done" /\ ~result[c].defined
    /\ promise[c] = "fulfilled" /\ ret[c] = RetUndefined /\ Logged(c) = 1

\* C10: getUserWithEmail and getUserWithId resolve with null when the
\* query succeeds with zero rows, and with the row when exactly one row
\* matches.
C10_NullWhenNoUser ==
  \A c \in Sent("getUserWithEmail") \cup Sent("getUserWithId") :
    (pc[c] = "done" /\ result[c].defined) =>
      /\ Len(result[c].rows) = 0 => ret[c] = RetNull
      /\ Len(result[c].rows) = 1 => ret[c] = RetRow(result[c].rows[1])

====
